---- MODULE Spec2Model ----
(***************************************************************************)
(* Model of the x402 paywall adapter (src/unnamed/part_000, the variant    *)
(* with native-coin support; paywall_adapter.js is its ERC-20-only         *)
(* predecessor and coincides with it when TOKEN.native is not set).        *)
(*                                                                         *)
(* Two wrappers share page-global artifact slots:                          *)
(*   window.ethereum.request  - an async function that suspends at every   *)
(*                              awaited origRequest call;                  *)
(*   window.fetch             - runs synchronously up to origFetch.apply.  *)
(* A provider call in flight is a record in calls[c]; the provider's       *)
(* settlement of its outstanding request is the Reply action, which runs   *)
(* the continuation up to the next await, as the event loop does.          *)
(***************************************************************************)
EXTENDS Integers, Sequences, FiniteSets, TLC

VARIABLES
    TOKEN,              \* window.__x402_token, read once at load
    nativePaymentData,  \* window.__x402_nativePaymentData: <<>> unset/null, <<artifact>>
    eip2612_permit,     \* window.__x402_eip2612_permit:    <<>> unset, <<permit>>
    eip2612_transfer,   \* window.__x402_eip2612_transfer:  <<>> unset, <<transfer>>
    calls,              \* invocations of the wrapped request that are in flight
    event,              \* what the page observed last: a settled request or a fetch
    probe               \* the last application of a pure function: its inputs and result

vars == <<TOKEN, nativePaymentData, eip2612_permit, eip2612_transfer, calls, event, probe>>

slots == <<nativePaymentData, eip2612_permit, eip2612_transfer>>

-----------------------------------------------------------------------------
(* The page runs two call chains; each has at most one wrapped provider    *)
(* request in flight, so two requests can be suspended at the same time.   *)

Calls == {"A", "B"}

-----------------------------------------------------------------------------
(* Program constants and value domains *)

PERMIT_DEADLINE == 3600

NaN == -1               \* parseInt of a non-hex string
JsonNull == -2          \* what JSON.stringify writes for NaN

NonLatin1 == "sig+U263A"    \* a string holding a code point above 255

\* Strings of decimal digits are sequences of character codes: 0..9 are the
\* digits, 10 stands for a character that is not a digit.
ValueStrings == {<<1, 6>>, <<10>>}

ProviderValues == {"0x5", NonLatin1}
ProviderErrors == {"E4001"}
Outcomes == [ok : {TRUE}, v : ProviderValues] \cup [ok : {FALSE}, v : ProviderErrors]

\* window.__x402_token as it stands after lines 3-14
TokenConfigs ==
    { [native |-> FALSE, address |-> "0xToken", symbol |-> "TKN", name |-> "", version |-> "1"],
      [native |-> TRUE,  address |-> "", symbol |-> "ETH", name |-> "", version |-> "1"],
      [native |-> FALSE, address |-> "", symbol |-> "TOKEN", name |-> "", version |-> "1"] }

\* data.domain of the typed data the page asks to sign
PageDomain == [name |-> "USDC", version |-> "2", chainId |-> 84532]
NoDomain == [name |-> "", version |-> "", chainId |-> 0]

\* window.x402?.paymentRequirements?.[0]?.network: <<>> absent, <<s>> present
Networks == {<<>>, <<"base">>}

\* Date.now() in milliseconds
Times == {1999}

\* args.params[1] of a signing call, by what JSON.parse makes of it.
TypedSet ==
    { [valid |-> FALSE, primaryType |-> "", to |-> "", value |-> <<>>, domain |-> NoDomain],
      [valid |-> TRUE, primaryType |-> "Permit", to |-> "0xSpender", value |-> <<1, 6>>,
       domain |-> PageDomain] }
    \cup
    { [valid |-> TRUE, primaryType |-> "TransferWithAuthorization",
       to |-> "0xSpender", value |-> v, domain |-> PageDomain] : v \in ValueStrings }

NoTyped == [valid |-> FALSE, primaryType |-> "", to |-> "", value |-> <<>>, domain |-> NoDomain]

ArgsSet ==
    { [method |-> "eth_chainId", signer |-> "", typed |-> NoTyped] }
    \cup
    { [method |-> "eth_signTypedData_v4", signer |-> "0xOwner", typed |-> t] : t \in TypedSet }

-----------------------------------------------------------------------------
(* Pure helpers of the provider wrapper *)

IS_NATIVE(t) == t.native = TRUE

\* Wrapped without the early return of line 8
WrappedAlways(t) == TRUE

\* line 8: if (!IS_NATIVE && !TOKEN.address) return;  -- nothing is wrapped
Wrapped(t) == IS_NATIVE(t) \/ t.address # ""

RECURSIVE DigitsToNat(_)
DigitsToNat(s) ==
    IF s = <<>> THEN 0
    ELSE 10 * DigitsToNat(SubSeq(s, 1, Len(s) - 1)) + s[Len(s)]

\* BigInt(str) throws a SyntaxError unless str is a string of digits
BigIntThrows(s) == \E i \in 1..Len(s) : s[i] \notin 0..9
BigInt(s) == DigitsToNat(s)

RECURSIVE ToRadix(_, _)
ToRadix(n, r) ==
    IF n < r THEN <<n>> ELSE Append(ToRadix(n \div r, r), n % r)

\* '0x' + BigInt(msg.value).toString(16): the hex digits after the 0x
ValueHex(s) == ToRadix(BigInt(s), 16)

\* String(deadline): the decimal digits
String(n) == ToRadix(n, 10)

RECURSIVE Pow10(_)
Pow10(k) == IF k = 0 THEN 1 ELSE 10 * Pow10(k - 1)

\* s.padStart(len, '0'): pads on the left, never shortens
RECURSIVE PadStart(_, _)
PadStart(s, len) == IF Len(s) >= len THEN s ELSE PadStart(<<0>> \o s, len)

\* s.slice(0, 4)
Slice4(s) == SubSeq(s, 1, IF Len(s) < 4 THEN Len(s) ELSE 4)

\* s.replace(/0+$/, '')
RECURSIVE StripZeros(_)
StripZeros(s) ==
    IF s # <<>> /\ s[Len(s)] = 0 THEN StripZeros(SubSeq(s, 1, Len(s) - 1)) ELSE s

\* formatAmount without the padStart of line 20
formatAmountUnpadded(atomic, decimals) ==
    LET d == Pow10(decimals)
        n == BigInt(atomic)
    IN  [i |-> String(n \div d), f |-> StripZeros(Slice4(String(n % d)))]

\* lines 16-22; the result i.f is the pair of digit strings, f empty when
\* the result is i alone
formatAmount(atomic, decimals) ==
    LET d == Pow10(decimals)
        n == BigInt(atomic)
    IN  [i |-> String(n \div d), f |-> StripZeros(Slice4(PadStart(String(n % d), decimals)))]

\* Deadline without the conversion from milliseconds to seconds
DeadlineMillis(t) == t + PERMIT_DEADLINE

\* Math.floor(Date.now() / 1000) + PERMIT_DEADLINE
Deadline(t) == (t \div 1000) + PERMIT_DEADLINE

\* parseInt(nonceHex, 16)
ParseInt16(v) == IF v = "0x5" THEN 5 ELSE NaN

\* Matches without the primaryType test of line 104
MatchesAnyTypedData(args) ==
    /\ args.method = "eth_signTypedData_v4"
    /\ args.typed.valid

\* the call is a typed-data signing request for a TransferWithAuthorization
\* (lines 101-104; a params[1] that JSON.parse rejects lands in catch {})
Matches(args) ==
    /\ args.method = "eth_signTypedData_v4"
    /\ args.typed.valid
    /\ args.typed.primaryType = "TransferWithAuthorization"

SendTransactionRequest(args) ==
    [method |-> "eth_sendTransaction",
     from |-> args.signer, to |-> args.typed.to, value |-> ValueHex(args.typed.value)]

NonceRequest(t, args) ==
    [method |-> "eth_call", to |-> t.address, selector |-> "0x7ecebe00", account |-> args.signer]

PermitMsg(args, nonce, deadline) ==
    [owner |-> args.signer, spender |-> args.typed.to, value |-> args.typed.value,
     nonce |-> nonce, deadline |-> String(deadline)]

\* a || b on strings: the empty string (like undefined) is falsy
Or(a, b) == IF a # "" THEN a ELSE b

\* TokenLoad with the extra taking precedence over the configuration
TokenLoadExtraFirst(tok, extra) ==
    IF extra = <<>> THEN tok
    ELSE [tok EXCEPT !.name = Or(extra[1].name, tok.name),
                     !.version = Or(extra[1].version, tok.version)]

\* lines 3-14: the token configuration after the merge with
\* window.x402.paymentRequirements[0].extra (<<>> when there is none)
TokenLoad(tok, extra) ==
    IF extra = <<>> THEN tok
    ELSE [tok EXCEPT !.name = Or(tok.name, Or(extra[1].name, tok.symbol)),
                     !.version = Or(tok.version, Or(extra[1].version, "1"))]

\* lines 127-132
PermitDomain(t, domain) ==
    [name |-> Or(t.name, domain.name),
     version |-> Or(t.version, Or(domain.version, "1")),
     chainId |-> domain.chainId,
     verifyingContract |-> t.address]

PermitRequest(t, args, nonce, deadline) ==
    [method |-> "eth_signTypedData_v4", signer |-> args.signer,
     primaryType |-> "Permit", domain |-> PermitDomain(t, args.typed.domain),
     message |-> PermitMsg(args, nonce, deadline)]

PermitArtifact(args, nonce, deadline, sig) ==
    [owner |-> args.signer, spender |-> args.typed.to, value |-> args.typed.value,
     nonce |-> nonce, deadline |-> String(deadline), signature |-> sig]

\* TransferIntent with the parties exchanged
TransferIntentSwapped(args) ==
    [from |-> args.typed.to, to |-> args.signer, amount |-> args.typed.value]

TransferIntent(args) ==
    [from |-> args.signer, to |-> args.typed.to, amount |-> args.typed.value]

NativeArtifact(args, txHash) ==
    [txHash |-> txHash, from |-> args.signer, to |-> args.typed.to,
     amountWei |-> args.typed.value]

-----------------------------------------------------------------------------
(* Provider wrapper: window.ethereum.request *)

NoArgs == [method |-> "", signer |-> "", typed |-> NoTyped]
NoRet == [ok |-> FALSE, v |-> ""]
IdleCall ==
    [pc |-> "idle", args |-> NoArgs, time |-> 0, deadline |-> 0,
     issued |-> <<>>, replies |-> <<>>, ret |-> NoRet]

\* origRequest(r) is called and awaited at position pc
Issue(call, r, pc) == [call EXCEPT !.pc = pc, !.issued = Append(@, r)]

\* line 170: return origRequest(args)
FallThrough(call) == Issue(call, call.args, "await_orig")

\* Start with the native branch falling back to the Permit conversion when
\* the amount does not convert
StartPermitAfterNativeThrow(t, args, time) ==
    LET call == [IdleCall EXCEPT !.args = args] IN
    IF ~Wrapped(t) THEN FallThrough(call)
    ELSE IF ~Matches(args) THEN FallThrough(call)
    ELSE IF IS_NATIVE(t) /\ ~BigIntThrows(args.typed.value)
         THEN Issue(call, SendTransactionRequest(args), "await_tx")
         ELSE Issue([call EXCEPT !.time = time, !.deadline = Deadline(time)],
                    NonceRequest(t, args), "await_nonce")

\* The synchronous part of the wrapper, up to its first await.
Start(t, args, time) ==
    LET call == [IdleCall EXCEPT !.args = args] IN
    IF ~Wrapped(t) THEN FallThrough(call)
    ELSE IF ~Matches(args) THEN FallThrough(call)
    ELSE IF IS_NATIVE(t)
         THEN IF BigIntThrows(args.typed.value)
              THEN FallThrough(call)
              ELSE Issue(call, SendTransactionRequest(args), "await_tx")
         ELSE Issue([call EXCEPT !.time = time, !.deadline = Deadline(time)],
                    NonceRequest(t, args), "await_nonce")

\* The value the caller's promise settles with
Return(call, o) == [call EXCEPT !.pc = "done", !.ret = o]

\* Continue with the nonce read outside the try block: its rejection
\* reaches the caller
ContinueNonceUncaught(t, call, o) ==
    LET c == [call EXCEPT !.replies = Append(@, o)] IN
    CASE call.pc = "await_orig" -> Return(c, o)
      [] call.pc = "await_tx" ->
            IF o.ok THEN Return(c, o) ELSE FallThrough(c)
      [] call.pc = "await_nonce" ->
            IF o.ok
            THEN Issue(c, PermitRequest(t, c.args, ParseInt16(o.v), c.deadline), "await_sign")
            ELSE Return(c, o)
      [] call.pc = "await_sign" ->
            IF o.ok THEN Return(c, o) ELSE FallThrough(c)

\* The continuation that runs when the awaited origRequest settles with o.
Continue(t, call, o) ==
    LET c == [call EXCEPT !.replies = Append(@, o)] IN
    CASE call.pc = "await_orig" -> Return(c, o)
      [] call.pc = "await_tx" ->
            IF o.ok THEN Return(c, o) ELSE FallThrough(c)
      [] call.pc = "await_nonce" ->
            IF o.ok
            THEN Issue(c, PermitRequest(t, c.args, ParseInt16(o.v), c.deadline), "await_sign")
            ELSE FallThrough(c)
      [] call.pc = "await_sign" ->
            IF o.ok THEN Return(c, o) ELSE FallThrough(c)

\* StoresNative with the store on the rejection path
StoresNativeOnRejection(call, o) == call.pc = "await_tx" /\ ~o.ok

\* lines 114-119
StoresNative(call, o) == call.pc = "await_tx" /\ o.ok

\* StoresPermit with the store ahead of the signature check
StoresPermitAnyOutcome(call, o) == call.pc = "await_sign"

\* lines 164-165
StoresPermit(call, o) == call.pc = "await_sign" /\ o.ok

NonceOf(call) == ParseInt16(call.replies[1].v)

\* The artifact a store replaces (history, for the single-slot properties)
Overwritten(call, o, np, permit) ==
    IF StoresNative(call, o) THEN np
    ELSE IF StoresPermit(call, o) THEN permit
    ELSE <<>>

NoFetch == [req |-> [init |-> <<>>], net |-> <<>>, fwd |-> [init |-> <<>>],
            orig |-> NoRet, ret |-> NoRet]

Request(c, args, time) ==
    /\ calls[c].pc = "idle"
    /\ calls' = [calls EXCEPT ![c] = Start(TOKEN, args, time)]
    /\ UNCHANGED <<TOKEN, slots, event, probe>>

Reply(c, o) ==
    /\ calls[c].pc \in {"await_orig", "await_tx", "await_nonce", "await_sign"}
    /\ LET next == Continue(TOKEN, calls[c], o) IN
        /\ IF next.pc = "done"
           THEN /\ calls' = [calls EXCEPT ![c] = IdleCall]
                /\ event' = [kind |-> "return", call |-> next, fetch |-> NoFetch,
                             lost |-> Overwritten(calls[c], o, nativePaymentData,
                                                  eip2612_permit)]
           ELSE /\ calls' = [calls EXCEPT ![c] = next]
                /\ UNCHANGED event
        /\ nativePaymentData' =
              IF StoresNative(calls[c], o)
              THEN <<NativeArtifact(calls[c].args, o.v)>>
              ELSE nativePaymentData
        /\ eip2612_permit' =
              IF StoresPermit(calls[c], o)
              THEN <<PermitArtifact(calls[c].args, NonceOf(calls[c]), calls[c].deadline, o.v)>>
              ELSE eip2612_permit
        /\ eip2612_transfer' =
              IF StoresPermit(calls[c], o)
              THEN <<TransferIntent(calls[c].args)>>
              ELSE eip2612_transfer
    /\ UNCHANGED <<TOKEN, probe>>

-----------------------------------------------------------------------------
(* Network wrapper: window.fetch *)

PaymentKeys == {"X-PAYMENT", "x-payment", "X-Payment"}

\* Header names compare case-insensitively on the wire (and inside a Headers
\* collection, which stores them lower-cased).
Lower(k) == IF k \in PaymentKeys THEN "x-payment" ELSE "accept"

\* A header value: a plain string, or btoa(JSON.stringify(p)) for a payload p
Text(s) == [b64 |-> FALSE, text |-> s, json |-> <<>>]
Accept == Text("application/json")

HeaderBag(kind, k, v) ==
    [kind |-> kind,
     entries |-> [n \in {IF kind = "Headers" THEN Lower(k) ELSE k,
                         IF kind = "Headers" THEN "accept" ELSE "Accept"} |->
                    IF Lower(n) = "x-payment" THEN v ELSE Accept]]

\* args of a fetch call: init is <<>> when args[1]?.headers is undefined,
\* else <<h>> with h a plain object or a Headers collection.
FetchInputs ==
    { [init |-> <<>>] }
    \cup { [init |-> <<HeaderBag("object", "Accept", Accept)>>] }
    \cup { [init |-> <<HeaderBag("object", k, Text("placeholder"))>>] : k \in PaymentKeys }
    \cup { [init |-> <<HeaderBag("object", "X-PAYMENT", Text(""))>>] }
    \cup { [init |-> <<HeaderBag("Headers", "X-PAYMENT", Text("placeholder"))>>] }

FetchOutcomes == { [ok |-> TRUE, v |-> "200"], [ok |-> FALSE, v |-> "NetworkError"] }

Truthy(val) == val.b64 \/ val.text # ""

\* h[k]: an own property of a plain object; a Headers collection has no
\* properties named after its entries (they are reached through get/set).
Prop(h, k) ==
    IF h.kind = "object" /\ k \in DOMAIN h.entries THEN <<h.entries[k]>> ELSE <<>>

\* line 179: h['X-PAYMENT'] || h['x-payment']
Xpay(h) ==
    LET a == Prop(h, "X-PAYMENT") IN
    IF a # <<>> /\ Truthy(a[1]) THEN a ELSE Prop(h, "x-payment")

\* line 180: if (xpay)
XpayTruthy(h) == Xpay(h) # <<>> /\ Truthy(Xpay(h)[1])

\* lines 186, 193: h instanceof Headers ? h.set('X-PAYMENT', v) : h['X-PAYMENT'] = v
SetHeader(h, v) ==
    LET k == IF h.kind = "Headers" THEN "x-payment" ELSE "X-PAYMENT" IN
    [h EXCEPT !.entries = [n \in DOMAIN h.entries \cup {k} |-> IF n = k THEN v ELSE h.entries[n]]]

\* window.x402?.paymentRequirements?.[0]?.network || 'base-sepolia'
Network(n) == IF n = <<>> THEN "base-sepolia" ELSE n[1]

\* JSON.stringify writes NaN as null
JsonNumber(n) == IF n = NaN THEN JsonNull ELSE n

NativePayload(n, np) ==
    [x402Version |-> 1, scheme |-> "native", network |-> Network(n),
     payload |-> [txHash |-> np.txHash, from |-> np.from, to |-> np.to,
                  amountWei |-> np.amountWei]]

PermitPayload(n, permit, transfer) ==
    [x402Version |-> 1, scheme |-> "exact", network |-> Network(n),
     payload |-> [permit |-> [permit EXCEPT !.nonce = JsonNumber(@)],
                  transfer |-> transfer]]

\* btoa throws InvalidCharacterError on a code point above 255
BtoaThrows(p) ==
    IF p.scheme = "native" THEN p.payload.txHash = NonLatin1
    ELSE p.payload.permit.signature = NonLatin1

Encoded(p) == [b64 |-> TRUE, text |-> "", json |-> <<p>>]

\* line 182
UsesNative(t, np) == IS_NATIVE(t) /\ np # <<>>
\* line 190
UsesPermit(t, np, permit) == ~UsesNative(t, np) /\ permit # <<>>

\* The payload built for a request whose header was detected, <<>> if none
Built(t, n, np, permit, transfer) ==
    IF UsesNative(t, np) THEN <<NativePayload(n, np[1])>>
    ELSE IF UsesPermit(t, np, permit) THEN <<PermitPayload(n, permit[1], transfer)>>
    ELSE <<>>

\* The try block runs to the header write and the slot clear
Substitutes(t, req, n, np, permit, transfer) ==
    /\ Wrapped(t)
    /\ req.init # <<>>
    /\ XpayTruthy(req.init[1])
    /\ Built(t, n, np, permit, transfer) # <<>>
    /\ ~BtoaThrows(Built(t, n, np, permit, transfer)[1])

\* The arguments origFetch.apply(this, args) sees
Forwarded(t, req, n, np, permit, transfer) ==
    IF Substitutes(t, req, n, np, permit, transfer)
    THEN [init |-> <<SetHeader(req.init[1], Encoded(Built(t, n, np, permit, transfer)[1]))>>]
    ELSE req

\* FetchReturn with the original fetch inside the try block: a rejection is
\* swallowed
FetchReturnSwallowed(o) == IF o.ok THEN o ELSE [ok |-> TRUE, v |-> "undefined"]

\* line 200: return origFetch.apply(this, args)
FetchReturn(o) == o

\* network is the page global read at line 184/191 when the fetch runs
Fetch(req, network, o) ==
    LET sub == Substitutes(TOKEN, req, network, nativePaymentData, eip2612_permit, eip2612_transfer)
    IN
    /\ event' = [kind |-> "fetch", call |-> IdleCall, lost |-> <<>>,
                 fetch |-> [req |-> req,
                            net |-> network,
                            fwd |-> Forwarded(TOKEN, req, network, nativePaymentData,
                                              eip2612_permit, eip2612_transfer),
                            orig |-> o,
                            ret |-> FetchReturn(o)]]
    /\ nativePaymentData' =
          IF sub /\ UsesNative(TOKEN, nativePaymentData) THEN <<>> ELSE nativePaymentData
    /\ eip2612_permit' =
          IF sub /\ UsesPermit(TOKEN, nativePaymentData, eip2612_permit) THEN <<>> ELSE eip2612_permit
    /\ eip2612_transfer' =
          IF sub /\ UsesPermit(TOKEN, nativePaymentData, eip2612_permit) THEN <<>> ELSE eip2612_transfer
    /\ UNCHANGED <<TOKEN, calls, probe>>

-----------------------------------------------------------------------------
(* The page *)

NoProbe == [fn |-> "none"]

\* the page once the script has run: nothing stored, nothing in flight
Loaded ==
    /\ TOKEN \in TokenConfigs
    /\ nativePaymentData = <<>>
    /\ eip2612_permit = <<>>
    /\ eip2612_transfer = <<>>
    /\ calls = [c \in Calls |-> IdleCall]
    /\ event = [kind |-> "none", call |-> IdleCall, fetch |-> NoFetch, lost |-> <<>>]

Init == Loaded /\ probe = NoProbe

Next ==
    \/ \E c \in Calls, args \in ArgsSet, time \in Times : Request(c, args, time)
    \/ \E c \in Calls, o \in Outcomes : Reply(c, o)
    \/ \E req \in FetchInputs, n \in Networks, o \in FetchOutcomes : Fetch(req, n, o)

Spec == Init /\ [][Next]_vars

------------------------------------------------------------------------------
(* formatAmount on its own: the amounts and decimal counts it is applied to *)

MaxDecimals == 5
MaxLen == 5
AmountDigits == {0, 1, 9}

RECURSIVE DigitStrings(_)
DigitStrings(len) ==
    IF len = 0 THEN {<<>>}
    ELSE {Append(s, x) : s \in DigitStrings(len - 1), x \in AmountDigits}

Amounts == UNION {DigitStrings(len) : len \in 1..MaxLen}

InitFormat ==
    /\ Loaded
    /\ \E a \in Amounts, d \in 0..MaxDecimals :
          probe = [fn |-> "formatAmount", atomic |-> a, decimals |-> d, out |-> <<>>]

Format ==
    /\ probe.out = <<>>
    /\ probe' = [probe EXCEPT !.out = <<formatAmount(probe.atomic, probe.decimals)>>]
    /\ UNCHANGED <<TOKEN, slots, calls, event>>

NextFormat == Format

SpecFormat == InitFormat /\ [][NextFormat]_vars

------------------------------------------------------------------------------
(* The permit domain on its own: every configuration, with and without the
   payment requirements' extra, against every original domain *)

Names(x) == {"", x}

RawTokens ==
    { [native |-> FALSE, address |-> "0xToken", symbol |-> sy, name |-> n, version |-> v] :
        sy \in Names("TKN"), n \in Names("Token"), v \in Names("1") }

Extras ==
    {<<>>} \cup { <<[name |-> n, version |-> v]>> : n \in Names("ExtraName"), v \in Names("3") }

Domains ==
    { [name |-> n, version |-> v, chainId |-> 84532] : n \in Names("USDC"), v \in Names("2") }

InitDomain ==
    /\ Loaded
    /\ \E tok \in RawTokens, extra \in Extras, dom \in Domains :
          probe = [fn |-> "permitDomain", tok |-> tok, extra |-> extra, domain |-> dom,
                   out |-> <<>>]

Domain ==
    /\ probe.out = <<>>
    /\ probe' = [probe EXCEPT
                   !.out = <<PermitDomain(TokenLoad(probe.tok, probe.extra), probe.domain)>>]
    /\ UNCHANGED <<TOKEN, slots, calls, event>>

NextDomain == Domain

SpecDomain == InitDomain /\ [][NextDomain]_vars

TypeOK ==
    /\ TOKEN \in TokenConfigs
    /\ event.kind \in {"none", "return", "fetch"}
    /\ Len(nativePaymentData) <= 1 /\ Len(eip2612_permit) <= 1 /\ Len(eip2612_transfer) <= 1

-----------------------------------------------------------------------------
(* Vocabulary of the properties *)

\* Every invocation of the wrapped request the state still shows: those in
\* flight and the one that settled last.
Observed ==
    {calls[c] : c \in Calls} \cup (IF event.kind = "return" THEN {event.call} ELSE {})

\* The step is an invocation of the wrapped fetch (Request and Reply always
\* change calls); event' describes it.
FetchStep == calls' = calls /\ event'.kind = "fetch"

\* Names under which a header bag holds the payment header, in any casing
PaymentHeaderNames(h) == {k \in DOMAIN h.entries : Lower(k) = "x-payment"}

CarriesPaymentHeader(req) ==
    req.init # <<>> /\ PaymentHeaderNames(req.init[1]) # {}

\* The values a request holds under the payment header
PaymentValues(req) ==
    IF req.init = <<>> THEN {}
    ELSE {req.init[1].entries[k] : k \in PaymentHeaderNames(req.init[1])}

\* The payload the stored artifact calls for when a fetch reading network n
\* runs in the current state, <<>> when no artifact is stored
Pending(n) == Built(TOKEN, n, nativePaymentData, eip2612_permit, eip2612_transfer)
PendingEncodable(n) == Pending(n) # <<>> /\ ~BtoaThrows(Pending(n)[1])

\* The same, after the step
PendingAfter(n) == Built(TOKEN, n, nativePaymentData', eip2612_permit', eip2612_transfer')

-----------------------------------------------------------------------------
(* C1: a call whose method is not eth_signTypedData_v4, or whose typed data *)
(* does not have primaryType TransferWithAuthorization, issues exactly one  *)
(* provider call, the original request with the same arguments, and the     *)
(* caller gets that call's result or error unchanged.                       *)

PassThroughCase(args) ==
    \/ args.method # "eth_signTypedData_v4"
    \/ ~args.typed.valid
    \/ args.typed.primaryType # "TransferWithAuthorization"

C1_PassThrough ==
    \A call \in Observed :
        (call.pc # "idle" /\ PassThroughCase(call.args)) =>
            /\ call.issued = <<call.args>>
            /\ call.pc = "done" => call.replies = <<call.ret>>

C1_Witness ==
    /\ Wrapped(TOKEN)
    /\ event.kind = "return"
    /\ event.call.args.method = "eth_signTypedData_v4"
    /\ event.call.args.typed.primaryType = "Permit"
    /\ event.call.issued = <<event.call.args>>
    /\ ~event.call.ret.ok

-----------------------------------------------------------------------------
(* C3: in the ERC-20 branch, when the eth_call nonce read rejects, the      *)
(* original unmodified request is forwarded, no Permit signing request is   *)
(* issued, no artifact is stored, and the caller receives the original      *)
(* request's outcome rather than the nonce-read error.                      *)

NonceReadRejected(call) ==
    /\ Len(call.replies) >= 1
    /\ call.issued[1].method = "eth_call"
    /\ ~call.replies[1].ok

C3_StateOk ==
    \A call \in Observed :
        NonceReadRejected(call) =>
            /\ Len(call.issued) = 2
            /\ call.issued[2] = call.args
            /\ call.pc \in {"await_orig", "done"}
            /\ call.pc = "done" => (Len(call.replies) = 2 /\ call.ret = call.replies[2])

C3_StepOk ==
    \A c \in Calls :
        (calls'[c] # calls[c] /\
         (NonceReadRejected(calls'[c]) \/ NonceReadRejected(calls[c]))) =>
            UNCHANGED slots

C3_FailOpenOnNonceRead == [](C3_StateOk) /\ [][C3_StepOk]_vars

C3_Witness ==
    /\ event.kind = "return"
    /\ NonceReadRejected(event.call)
    /\ event.call.ret.ok
    /\ eip2612_permit = <<>>

-----------------------------------------------------------------------------
(* C4: when a request the interceptor forwards to the provider fails (the   *)
(* original request, the reshaped Permit signing request or the             *)
(* eth_sendTransaction of a matching call), that error reaches the caller   *)
(* unchanged and no further provider request is issued for the call.        *)

C4_FailurePropagated ==
    \A call \in Observed :
        \A i \in 1..Len(call.replies) :
            (call.issued[i].method # "eth_call" /\ ~call.replies[i].ok) =>
                /\ Len(call.issued) = i
                /\ call.pc = "done"
                /\ call.ret = call.replies[i]

-----------------------------------------------------------------------------
(* C5: at most one of the permit slot and the native slot is populated, and *)
(* at most one artifact is outstanding however many signing calls have      *)
(* completed.                                                               *)

C5_SingleSlot == Len(nativePaymentData) + Len(eip2612_permit) <= 1

\* a second signing call has completed on top of an unconsumed artifact
C5_Witness ==
    /\ event.kind = "return"
    /\ event.lost # <<>>
    /\ Len(nativePaymentData) + Len(eip2612_permit) = 1

-----------------------------------------------------------------------------
(* C7: every invocation of the wrapped fetch forwards the caller's          *)
(* arguments to the original fetch and returns its result or error          *)
(* unchanged, also when building the payload threw; a request without a     *)
(* payment header goes out with its headers as they were and leaves the     *)
(* artifact slots unchanged.                                                *)

\* the forwarded arguments are the caller's: the same container, the same
\* entries, only a payment header may differ
SameButPayment(req, fwd) ==
    IF req.init = <<>> THEN fwd = req
    ELSE /\ fwd.init # <<>>
         /\ fwd.init[1].kind = req.init[1].kind
         /\ DOMAIN req.init[1].entries \subseteq DOMAIN fwd.init[1].entries
         /\ \A k \in DOMAIN fwd.init[1].entries :
                Lower(k) # "x-payment" =>
                    /\ k \in DOMAIN req.init[1].entries
                    /\ fwd.init[1].entries[k] = req.init[1].entries[k]

C7_StateOk ==
    event.kind = "fetch" =>
        /\ event.fetch.ret = event.fetch.orig
        /\ SameButPayment(event.fetch.req, event.fetch.fwd)

C7_StepOk ==
    (FetchStep /\ ~CarriesPaymentHeader(event'.fetch.req)) =>
        /\ event'.fetch.fwd = event'.fetch.req
        /\ UNCHANGED slots

C7_FetchForwarding == [](C7_StateOk) /\ [][C7_StepOk]_vars

\* a fetch whose payload construction threw, and whose original fetch failed
C7_Witness ==
    /\ event.kind = "fetch"
    /\ event.fetch.req.init # <<>>
    /\ XpayTruthy(event.fetch.req.init[1])
    /\ eip2612_permit # <<>>
    /\ BtoaThrows(PermitPayload(event.fetch.net, eip2612_permit[1], eip2612_transfer))
    /\ event.fetch.fwd = event.fetch.req
    /\ ~event.fetch.orig.ok
    /\ event.fetch.ret = event.fetch.orig

-----------------------------------------------------------------------------
(* C2: a stored artifact is attached to at most one outgoing request: the   *)
(* first request carrying a payment header after the store receives the     *)
(* encoded payload and empties the slot, and a second such request with no  *)
(* signing call in between goes out with its placeholder untouched.         *)
(* (A store always comes with a "return" event, so two fetch events in a    *)
(* row have no store between them.)                                         *)

C2_FirstConsumes ==
    (FetchStep /\ CarriesPaymentHeader(event'.fetch.req)
               /\ PendingEncodable(event'.fetch.net)) =>
        /\ Encoded(Pending(event'.fetch.net)[1]) \in PaymentValues(event'.fetch.fwd)
        /\ PendingAfter(event'.fetch.net) = <<>>

C2_SecondUntouched ==
    (FetchStep /\ event.kind = "fetch"
               /\ CarriesPaymentHeader(event.fetch.req)
               /\ CarriesPaymentHeader(event'.fetch.req)) =>
        event'.fetch.fwd = event'.fetch.req

C2_AttachedOnce ==
    (FetchStep /\ event'.fetch.fwd # event'.fetch.req) =>
        PendingAfter(event'.fetch.net) = <<>>

C2_ConsumeOnce == [][C2_FirstConsumes /\ C2_SecondUntouched /\ C2_AttachedOnce]_vars

-----------------------------------------------------------------------------
(* C6: when two matching signing calls complete successfully one after the  *)
(* other with no payment-header request in between, the next payment-header *)
(* request attaches the second call's artifact, and the first call's        *)
(* artifact is not attached.                                                *)

\* the payload for the artifact that the settled call `call` stored
PayloadOfCall(n, call) ==
    IF IS_NATIVE(TOKEN)
    THEN NativePayload(n, NativeArtifact(call.args, call.ret.v))
    ELSE PermitPayload(n, PermitArtifact(call.args, NonceOf(call), call.deadline, call.ret.v),
                       <<TransferIntent(call.args)>>)

\* the payload for the artifact that store replaced
PayloadOfLost(n, lost) ==
    IF IS_NATIVE(TOKEN)
    THEN NativePayload(n, lost[1])
    ELSE PermitPayload(n, lost[1], <<[from |-> lost[1].owner, to |-> lost[1].spender,
                                      amount |-> lost[1].value]>>)

C6_SecondWins ==
    (FetchStep /\ event.kind = "return" /\ event.lost # <<>>
               /\ CarriesPaymentHeader(event'.fetch.req)
               /\ ~BtoaThrows(PayloadOfCall(event'.fetch.net, event.call))) =>
        /\ Encoded(PayloadOfCall(event'.fetch.net, event.call))
              \in PaymentValues(event'.fetch.fwd)
        /\ PayloadOfLost(event'.fetch.net, event.lost)
              # PayloadOfCall(event'.fetch.net, event.call)
           => Encoded(PayloadOfLost(event'.fetch.net, event.lost))
                 \notin PaymentValues(event'.fetch.fwd)

C6_SingleSlotOverwrite == [][C6_SecondWins]_vars

-----------------------------------------------------------------------------
(* C8: with an artifact stored, a request carrying the X-PAYMENT header has *)
(* the header value replaced by the encoded payload and the artifact        *)
(* consumed, both when its headers are a plain object and when they are a   *)
(* Headers collection.                                                      *)

\* the caller wrote the header as X-PAYMENT with a non-empty placeholder
NamedXPayment(req) ==
    /\ req.init # <<>>
    /\ LET h == req.init[1]
           k == IF h.kind = "Headers" THEN "x-payment" ELSE "X-PAYMENT"
       IN  k \in DOMAIN h.entries /\ Truthy(h.entries[k])

C8_Substituted ==
    (FetchStep /\ NamedXPayment(event'.fetch.req)
               /\ PendingEncodable(event'.fetch.net)) =>
        /\ PaymentValues(event'.fetch.fwd) = {Encoded(Pending(event'.fetch.net)[1])}
        /\ PendingAfter(event'.fetch.net) = <<>>

C8_BothContainers == [][C8_Substituted]_vars

-----------------------------------------------------------------------------
(* C9: a plain-object request is treated as carrying the payment header for *)
(* any letter-casing of the key and any placeholder value, and the          *)
(* forwarded request holds the encoded payload under the key the caller     *)
(* used, with no entry still holding the placeholder.                       *)

C9_InPlace ==
    (FetchStep /\ CarriesPaymentHeader(event'.fetch.req)
               /\ event'.fetch.req.init[1].kind = "object"
               /\ \A v \in PaymentValues(event'.fetch.req) : Truthy(v)
               /\ PendingEncodable(event'.fetch.net)) =>
        LET h == event'.fetch.req.init[1]
            f == event'.fetch.fwd.init[1]
        IN  /\ DOMAIN f.entries = DOMAIN h.entries
            /\ \A k \in PaymentHeaderNames(h) :
                   f.entries[k] = Encoded(Pending(event'.fetch.net)[1])

C9_CaseInsensitiveInPlace == [][C9_InPlace]_vars

-----------------------------------------------------------------------------
(* C10: for a request carrying a payment header, the header becomes a       *)
(* scheme "native" payload exactly when the token is native and a native    *)
(* artifact is stored, a scheme "exact" payload with the stored permit and  *)
(* transfer-intent when otherwise a permit is stored, and stays untouched   *)
(* when nothing is stored; the network is the payment requirement's, or     *)
(* "base-sepolia" when there is none.                                       *)

C10_Network(n) == IF n = <<>> THEN "base-sepolia" ELSE n[1]

C10_Expected(n, req) ==
    IF TOKEN.native /\ nativePaymentData # <<>>
    THEN {Encoded([x402Version |-> 1, scheme |-> "native", network |-> C10_Network(n),
                   payload |-> nativePaymentData[1]])}
    ELSE IF eip2612_permit # <<>>
    THEN {Encoded([x402Version |-> 1, scheme |-> "exact", network |-> C10_Network(n),
                   payload |-> [permit |-> [eip2612_permit[1] EXCEPT !.nonce = JsonNumber(@)],
                                transfer |-> eip2612_transfer]])}
    ELSE PaymentValues(req)

C10_Selected ==
    (FetchStep /\ CarriesPaymentHeader(event'.fetch.req)
               /\ (Pending(event'.fetch.net) # <<>> => PendingEncodable(event'.fetch.net))) =>
        PaymentValues(event'.fetch.fwd) = C10_Expected(event'.fetch.net, event'.fetch.req)

C10_PayloadSelection == [][C10_Selected]_vars

------------------------------------------------------------------------------
(* C11: for a matching call with a non-native token whose nonce read and    *)
(* signing both succeed, the signing request sent to the provider has       *)
(* primaryType "Permit" and message {owner: signer, spender: the original   *)
(* message's destination, value: the original message's value, nonce: the   *)
(* value just read, deadline: current time + 3600 seconds}; the stored      *)
(* permit artifact carries those five fields plus the produced signature,   *)
(* and the caller is returned that signature unchanged.                     *)

\* the call matched, its nonce read and its signing request succeeded
Erc20Converted(call) ==
    /\ call.args.method = "eth_signTypedData_v4"
    /\ call.args.typed.valid
    /\ call.args.typed.primaryType = "TransferWithAuthorization"
    /\ Len(call.replies) >= 2
    /\ call.issued[1].method = "eth_call" /\ call.replies[1].ok
    /\ call.issued[2].method = "eth_signTypedData_v4" /\ call.replies[2].ok

C11_Message(call) ==
    [owner |-> call.args.signer,
     spender |-> call.args.typed.to,
     value |-> call.args.typed.value,
     nonce |-> IF call.replies[1].v = "0x5" THEN 5 ELSE NaN,
     deadline |-> ToRadix((call.time \div 1000) + 3600, 10)]

C11_Erc20Conversion ==
    (event.kind = "return" /\ ~TOKEN.native /\ TOKEN.address # ""
        /\ Erc20Converted(event.call)) =>
        LET call == event.call
            m == C11_Message(call)
        IN  /\ Len(call.issued) = 2
            /\ call.issued[2].primaryType = "Permit"
            /\ call.issued[2].message = m
            /\ eip2612_permit =
                  <<[owner |-> m.owner, spender |-> m.spender, value |-> m.value,
                     nonce |-> m.nonce, deadline |-> m.deadline,
                     signature |-> call.replies[2].v]>>
            /\ call.ret = call.replies[2]

C11_Witness ==
    /\ event.kind = "return" /\ ~TOKEN.native /\ TOKEN.address # ""
    /\ Erc20Converted(event.call)
    /\ event.call.replies[1].v = "0x5"
    /\ event.call.time = 1999
    /\ event.call.issued[2].message.deadline = <<3, 6, 0, 1>>

------------------------------------------------------------------------------
(* C12: for a matching call with a native token, the interceptor issues one *)
(* eth_sendTransaction with from = signer, to = the message's destination   *)
(* and value = the message's amount (hex-encoded), issues no signing        *)
(* request, and on success stores the native artifact {txHash, from, to,    *)
(* amountWei} with amountWei the message's amount as a decimal string and   *)
(* returns the transaction hash to the caller.                              *)

\* a matching call whose amount is a string of decimal digits
NativeCase(call) ==
    /\ call.pc # "idle"
    /\ call.args.method = "eth_signTypedData_v4"
    /\ call.args.typed.valid
    /\ call.args.typed.primaryType = "TransferWithAuthorization"
    /\ \A i \in 1..Len(call.args.typed.value) : call.args.typed.value[i] \in 0..9

TxSucceeded(call) ==
    /\ Len(call.replies) >= 1
    /\ call.issued[1].method = "eth_sendTransaction"
    /\ call.replies[1].ok

C12_Issued(call) ==
    /\ call.issued[1] =
          [method |-> "eth_sendTransaction", from |-> call.args.signer,
           to |-> call.args.typed.to,
           value |-> ToRadix(DigitsToNat(call.args.typed.value), 16)]
    /\ \A i \in 1..Len(call.issued) :
          /\ call.issued[i].method # "eth_signTypedData_v4"
          /\ call.issued[i].method = "eth_sendTransaction" => i = 1

C12_Stored ==
    (event.kind = "return" /\ NativeCase(event.call) /\ TxSucceeded(event.call)) =>
        /\ nativePaymentData =
              <<[txHash |-> event.call.replies[1].v, from |-> event.call.args.signer,
                 to |-> event.call.args.typed.to,
                 amountWei |-> event.call.args.typed.value]>>
        /\ event.call.ret = event.call.replies[1]

C12_NativeConversion ==
    TOKEN.native =>
        /\ \A call \in Observed : NativeCase(call) => C12_Issued(call)
        /\ C12_Stored

------------------------------------------------------------------------------
(* C13: when the token configuration has native false and an empty address, *)
(* neither the provider request nor the fetch function is wrapped: every    *)
(* provider call and every outgoing request behaves exactly as without the  *)
(* adapter, and no artifact is ever stored.                                 *)

Misconfigured == ~TOKEN.native /\ TOKEN.address = ""

C13_Disabled ==
    Misconfigured =>
        /\ nativePaymentData = <<>> /\ eip2612_permit = <<>> /\ eip2612_transfer = <<>>
        /\ \A call \in Observed :
              call.pc # "idle" =>
                  /\ call.issued = <<call.args>>
                  /\ call.pc = "done" =>
                        (Len(call.replies) = 1 /\ call.ret = call.replies[1])
        /\ event.kind = "fetch" =>
              /\ event.fetch.fwd = event.fetch.req
              /\ event.fetch.ret = event.fetch.orig

C13_Witness ==
    /\ Misconfigured
    /\ event.kind = "fetch" /\ CarriesPaymentHeader(event.fetch.req)
    /\ \E c \in Calls :
          /\ calls[c].pc = "await_orig"
          /\ calls[c].args.typed.primaryType = "TransferWithAuthorization"

------------------------------------------------------------------------------
(* C14: for every non-negative integer amount a and decimal count d,        *)
(* formatAmount(a, d) yields integer part a div 10^d and a fractional part  *)
(* that is the zero-padded remainder truncated to at most 4 digits with     *)
(* trailing zeros stripped (omitted when empty), so that parsing the output *)
(* back gives a value v with v <= a and a - v less than the truncation      *)
(* tolerance of 4 fractional digits. Checked for d up to MaxDecimals.       *)

Formatted == probe.fn = "formatAmount" /\ probe.out # <<>>

\* the output read back in atomic units
ParsedBack(r, d) == DigitsToNat(r.i) * Pow10(d) + DigitsToNat(r.f) * Pow10(d - Len(r.f))

C14_FormatterRoundTrip ==
    Formatted =>
        LET a == DigitsToNat(probe.atomic)
            d == probe.decimals
            r == probe.out[1]
            kept == IF d < 4 THEN d ELSE 4
        IN  /\ Len(r.i) >= 1 /\ (Len(r.i) > 1 => r.i[1] # 0)
            /\ DigitsToNat(r.i) = a \div Pow10(d)
            /\ Len(r.f) <= kept
            /\ r.f # <<>> => r.f[Len(r.f)] # 0
            /\ DigitsToNat(r.f) * Pow10(kept - Len(r.f)) = (a % Pow10(d)) \div Pow10(d - kept)
            /\ ParsedBack(r, d) <= a
            /\ (a - ParsedBack(r, d)) * Pow10(4) < Pow10(d)

C14_Witness ==
    /\ Formatted
    /\ probe.atomic = <<1, 0, 1, 9>> /\ probe.decimals = 5
    /\ probe.out[1] = [i |-> <<0>>, f |-> <<0, 1, 0, 1>>]
    /\ ParsedBack(probe.out[1], 5) = 1010

------------------------------------------------------------------------------
(* C15: in the ERC-20 branch the nonce read is issued and completed before  *)
(* the Permit signing request is issued, the permit artifact is written     *)
(* only after the signing request has succeeded, and on a successful        *)
(* interception the caller's original TransferWithAuthorization request is  *)
(* never forwarded to the provider; an artifact slot is never populated by  *)
(* anything other than a successful interception.                           *)

\* r is the Permit signing request the wrapper builds (not a forwarded call)
IsPermitSign(r) == r.method = "eth_signTypedData_v4" /\ "message" \in DOMAIN r

\* the call's last provider request is an interception request that succeeded
Intercepted(call) ==
    /\ call.pc = "done"
    /\ Len(call.issued) >= 1 /\ Len(call.replies) = Len(call.issued)
    /\ LET r == call.issued[Len(call.issued)] IN
          IsPermitSign(r) \/ r.method = "eth_sendTransaction"
    /\ call.replies[Len(call.replies)].ok

C15_StateOk ==
    \A call \in Observed :
        /\ \A i \in 1..Len(call.issued) :
              IsPermitSign(call.issued[i]) =>
                  /\ i > 1
                  /\ call.issued[i - 1].method = "eth_call"
                  /\ Len(call.replies) >= i - 1
                  /\ call.replies[i - 1].ok
        /\ (Intercepted(call) /\ call.args.typed.primaryType = "TransferWithAuthorization") =>
              \A i \in 1..Len(call.issued) : call.issued[i] # call.args

C15_StepOk ==
    /\ (eip2612_permit' # eip2612_permit /\ eip2612_permit' # <<>>) =>
          /\ event'.kind = "return" /\ event' # event
          /\ Intercepted(event'.call)
          /\ IsPermitSign(event'.call.issued[Len(event'.call.issued)])
          /\ eip2612_permit'[1].signature = event'.call.ret.v
    /\ (nativePaymentData' # nativePaymentData /\ nativePaymentData' # <<>>) =>
          /\ event'.kind = "return" /\ event' # event
          /\ Intercepted(event'.call)
          /\ event'.call.issued[Len(event'.call.issued)].method = "eth_sendTransaction"
          /\ nativePaymentData'[1].txHash = event'.call.ret.v
    /\ (eip2612_transfer' # eip2612_transfer /\ eip2612_transfer' # <<>>) =>
          eip2612_permit' # eip2612_permit

C15_InterceptionOrdering == [](C15_StateOk) /\ [][C15_StepOk]_vars

C15_Witness ==
    /\ event.kind = "return" /\ Intercepted(event.call)
    /\ Len(event.call.issued) = 2 /\ IsPermitSign(event.call.issued[2])
    /\ eip2612_permit # <<>> /\ eip2612_permit[1].signature = event.call.ret.v
    /\ \E c \in Calls : calls[c].pc = "await_sign"

------------------------------------------------------------------------------
(* C16: the domain of the reshaped signing request has verifyingContract    *)
(* equal to the configured token address, chainId equal to the original     *)
(* request's chainId, name equal to the configured token name when it is    *)
(* non-empty and otherwise the original request's domain name, and version  *)
(* equal to the configured version, else the original domain's version,     *)
(* else "1".                                                                *)

DomainBuilt == probe.fn = "permitDomain" /\ probe.out # <<>>

------------------------------------------------------------------------------
(* C17: in every reachable state the permit slot and the transfer-intent    *)
(* slot are either both populated or both empty, and when populated they    *)
(* come from the same signing call (transfer.from = permit.owner,           *)
(* transfer.to = permit.spender, transfer.amount = permit.value), under any *)
(* interleaving of signing calls and outgoing requests.                     *)

C17_Paired ==
    /\ (eip2612_permit = <<>>) <=> (eip2612_transfer = <<>>)
    /\ eip2612_permit # <<>> =>
          /\ eip2612_transfer[1].from = eip2612_permit[1].owner
          /\ eip2612_transfer[1].to = eip2612_permit[1].spender
          /\ eip2612_transfer[1].amount = eip2612_permit[1].value

C17_Witness ==
    /\ eip2612_permit # <<>> /\ eip2612_transfer # <<>>
    /\ event.kind = "fetch"
    /\ \E c \in Calls :
          /\ calls[c].pc = "await_sign"
          /\ calls[c].args.typed.value # eip2612_permit[1].value

------------------------------------------------------------------------------
(* C18: when two matching signing calls are in flight at the same time, the *)
(* artifact left in the slot is that of the call whose provider signing or  *)
(* transaction request completed last, irrespective of which call was       *)
(* started first, and a payment-header request issued by either flow        *)
(* attaches whatever artifact is in the slot at that moment.                *)

\* another interception is suspended at its nonce read, signing or transaction
Suspended == \E c \in Calls : calls[c].pc \in {"await_nonce", "await_sign", "await_tx"}

\* the slot holds what the settled call `call` produced
HoldsArtifactOf(call) ==
    IF TOKEN.native
    THEN /\ nativePaymentData # <<>>
         /\ nativePaymentData[1].txHash = call.ret.v
         /\ nativePaymentData[1].amountWei = call.args.typed.value
    ELSE /\ eip2612_permit # <<>>
         /\ eip2612_permit[1].signature = call.ret.v
         /\ eip2612_permit[1].value = call.args.typed.value

C18_LastCompletedWins ==
    (event.kind = "return" /\ Intercepted(event.call)) => HoldsArtifactOf(event.call)

C18_AttachesCurrent ==
    (FetchStep /\ Suspended
               /\ CarriesPaymentHeader(event'.fetch.req)
               /\ (\A v \in PaymentValues(event'.fetch.req) : Truthy(v))
               /\ PendingEncodable(event'.fetch.net)) =>
        PaymentValues(event'.fetch.fwd) = {Encoded(Pending(event'.fetch.net)[1])}

C18_OverlappingNegotiations == [](C18_LastCompletedWins) /\ [][C18_AttachesCurrent]_vars

------------------------------------------------------------------------------
(* C19: for a single matching call with a native token, it never happens    *)
(* that eth_sendTransaction succeeds and the caller's original signing      *)
(* request is also forwarded to the provider; a successful transaction      *)
(* always ends with the native artifact stored and the transaction hash     *)
(* returned.                                                                *)

\* the positions of the call's successful eth_sendTransaction requests
SentOk(call) ==
    {i \in 1..Len(call.replies) :
        call.issued[i].method = "eth_sendTransaction" /\ call.replies[i].ok}

C19_NoDoubleAuthorization ==
    TOKEN.native =>
        /\ \A call \in Observed :
              SentOk(call) # {} =>
                  /\ \A j \in 1..Len(call.issued) : call.issued[j] # call.args
                  /\ call.pc = "done"
                  /\ \A i \in SentOk(call) : call.ret = call.replies[i]
        /\ (event.kind = "return" /\ SentOk(event.call) # {}) =>
              /\ nativePaymentData # <<>>
              /\ nativePaymentData[1].txHash = event.call.ret.v

C19_Witness ==
    /\ TOKEN.native
    /\ event.kind = "return" /\ SentOk(event.call) = {1}
    /\ Len(event.call.issued) = 1
    /\ nativePaymentData # <<>> /\ nativePaymentData[1].txHash = "0x5"

------------------------------------------------------------------------------
(* C20: a non-matching provider call, a matching provider call that falls   *)
(* through after a failure, and an outgoing request without a payment       *)
(* header each leave both artifact slots exactly as they were, so an        *)
(* artifact stored by an earlier successful signing call remains and is     *)
(* attached to the next payment-header request.                             *)

\* the step belongs to a provider call and does not complete an interception
ProviderStepWithoutSuccess ==
    /\ calls' # calls
    /\ ~(event' # event /\ event'.kind = "return" /\ Intercepted(event'.call))

\* what the page observed last left the slots alone
LastLeftSlotsAlone ==
    \/ event.kind = "return" /\ ~Intercepted(event.call)
    \/ event.kind = "fetch" /\ ~CarriesPaymentHeader(event.fetch.req)

C20_Frame ==
    /\ ProviderStepWithoutSuccess => UNCHANGED slots
    /\ (FetchStep /\ ~CarriesPaymentHeader(event'.fetch.req)) => UNCHANGED slots

C20_StillAttached ==
    (FetchStep /\ LastLeftSlotsAlone
               /\ CarriesPaymentHeader(event'.fetch.req)
               /\ (\A v \in PaymentValues(event'.fetch.req) : Truthy(v))
               /\ PendingEncodable(event'.fetch.net)) =>
        /\ Encoded(Pending(event'.fetch.net)[1]) \in PaymentValues(event'.fetch.fwd)
        /\ PendingAfter(event'.fetch.net) = <<>>

C20_OnlySuccessPaths == [][C20_Frame /\ C20_StillAttached]_vars

====
